---- MODULE Spec2Model ----
\* A model of FileSystemConnector (pfs/ga/pipeline/data/filesystemconnector.py):
\* the discovery of data product files by glob, regex and typed filters, the
\* single-file check of locate, the load operations and the inference of the
\* data and rerun directories from a reference path.
EXTENDS Integers, Sequences, FiniteSets, TLC

\* ---------------------------------------------------------------------------
\* Text.  A string is a sequence of one-character strings.
\* ---------------------------------------------------------------------------

HexDigits == <<"0", "1", "2", "3", "4", "5", "6", "7", "8", "9", "a", "b", "c", "d", "e", "f">>

IsDigit(c, base) == \E i \in 1..base : HexDigits[i] = c

DigitVal(c) == (CHOOSE i \in 1..16 : HexDigits[i] = c) - 1

AllDigits(s, base) == s # <<>> /\ \A i \in 1..Len(s) : IsDigit(s[i], base)

RECURSIVE DigitsValue(_, _)
DigitsValue(s, base) ==
    IF s = <<>> THEN 0
    ELSE DigitsValue(SubSeq(s, 1, Len(s) - 1), base) * base + DigitVal(s[Len(s)])

RECURSIVE ToDigits(_, _)
ToDigits(v, base) ==
    IF v < base THEN <<HexDigits[v + 1]>>
    ELSE Append(ToDigits(v \div base, base), HexDigits[(v % base) + 1])

RECURSIVE ZeroPad(_, _)
ZeroPad(s, width) == IF Len(s) >= width THEN s ELSE ZeroPad(<<"0">> \o s, width)

\* The result of a parse: a value, or the ValueError the conversion raises.
Parsed(v) == [ok |-> TRUE, v |-> <<v>>]
ParseError == [ok |-> FALSE, v |-> <<>>]

\* A faulty variant of HexIDFilter_parse_value: the token is read in base 10.
HexIDFilter_parse_value_base10(value) ==
    LET body == IF Len(value) >= 2 /\ value[1] = "0" /\ value[2] = "x"
                THEN SubSeq(value, 3, Len(value)) ELSE value
    IN  IF AllDigits(body, 10) THEN Parsed(DigitsValue(body, 10)) ELSE ParseError

\* A faulty variant of HexIDFilter_parse_value: the 0x prefix is not accepted.
HexIDFilter_parse_value_no_prefix(value) ==
    IF AllDigits(value, 16) THEN Parsed(DigitsValue(value, 16)) ELSE ParseError

\* int(value, 16): an optional 0x prefix, then one or more hexadecimal digits;
\* ValueError otherwise.
HexIDFilter_parse_value(value) ==
    LET body == IF Len(value) >= 2 /\ value[1] = "0" /\ value[2] = "x"
                THEN SubSeq(value, 3, Len(value)) ELSE value
    IN  IF AllDigits(body, 16) THEN Parsed(DigitsValue(body, 16)) ELSE ParseError

\* The widths of the print formats '{:016x}', '{:05d}' and '{:06d}'.
HexWidth == 16
CatWidth == 5
VisitWidth == 6

\* The print formats of a hexadecimal filter: the default of HexIDFilter, and
\* the zero-padded one the connector gives its pfsDesignId and objId filters.
HexFormats == {"0x{:x}", "{:016x}"}

\* format.format(v) for a non-negative v.
HexIDFilter_format_value(format, v) ==
    IF format = "0x{:x}" THEN <<"0", "x">> \o ToDigits(v, 16)
    ELSE ZeroPad(ToDigits(v, 16), HexWidth)

\* ---------------------------------------------------------------------------
\* Filters (IntFilter, HexFilter, DateFilter, StringFilter).
\* ---------------------------------------------------------------------------

FieldType(k) ==
    CASE k \in {"pfsDesignId", "objId"} -> "hex"
      [] k \in {"visit", "catId", "tract"} -> "int"
      [] k = "date" -> "date"
      [] OTHER -> "str"

FieldWidth(k) ==
    CASE FieldType(k) = "hex" -> HexWidth
      [] k = "visit" -> VisitWidth
      [] OTHER -> CatWidth

\* A date value is the number yyyymmdd; its text is yyyy-mm-dd.
FormatDate(v) ==
    ZeroPad(ToDigits(v \div 10000, 10), 4) \o <<"-">>
        \o ZeroPad(ToDigits((v \div 100) % 100, 10), 2) \o <<"-">>
        \o ZeroPad(ToDigits(v % 100, 10), 2)

ParseDate(s) ==
    IF /\ Len(s) = 10 /\ s[5] = "-" /\ s[8] = "-"
       /\ AllDigits(SubSeq(s, 1, 4), 10)
       /\ AllDigits(SubSeq(s, 6, 7), 10)
       /\ AllDigits(SubSeq(s, 9, 10), 10)
    THEN LET y == DigitsValue(SubSeq(s, 1, 4), 10)
             m == DigitsValue(SubSeq(s, 6, 7), 10)
             d == DigitsValue(SubSeq(s, 9, 10), 10)
         IN  IF m \in 1..12 /\ d \in 1..31
             THEN Parsed(y * 10000 + m * 100 + d) ELSE ParseError
    ELSE ParseError

parse_value(k, s) ==
    CASE FieldType(k) = "hex" -> HexIDFilter_parse_value(s)
      [] FieldType(k) = "int" ->
            IF AllDigits(s, 10) THEN Parsed(DigitsValue(s, 10)) ELSE ParseError
      [] FieldType(k) = "date" -> ParseDate(s)
      [] OTHER -> Parsed(s)

format_value(k, v) ==
    CASE FieldType(k) = "hex" -> ZeroPad(ToDigits(v, 16), FieldWidth(k))
      [] FieldType(k) = "int" -> ZeroPad(ToDigits(v, 10), FieldWidth(k))
      [] FieldType(k) = "date" -> FormatDate(v)
      [] OTHER -> v

\* The query of a filter: unconstrained, one value, a set of values or an
\* inclusive range.  "absent" and "None" are the two ways a method argument
\* can fail to give one.
Query(mode, vs, lo, hi) == [mode |-> mode, vs |-> vs, lo |-> lo, hi |-> hi]
Unconstrained == Query("none", {}, 0, 0)
Absent == Query("absent", {}, 0, 0)
NoneArg == Query("None", {}, 0, 0)
Single(v) == Query("single", {v}, 0, 0)
AnyOf(vs) == Query("set", vs, 0, 0)
Between(lo, hi) == Query("range", {}, lo, hi)

match(q, v) ==
    CASE q.mode = "none" -> TRUE
      [] q.mode \in {"single", "set"} -> v \in q.vs
      [] q.mode = "range" -> q.lo <= v /\ v <= q.hi
      [] OTHER -> FALSE

\* A glob fragment: the formatted value of a single-value query, a wildcard
\* otherwise.
get_glob_pattern(k, q) ==
    IF q.mode = "single"
    THEN [exact |-> TRUE, text |-> format_value(k, CHOOSE v \in q.vs : TRUE)]
    ELSE [exact |-> FALSE, text |-> <<>>]

GlobFragmentMatches(frag, s) == ~frag.exact \/ frag.text = s

\* ---------------------------------------------------------------------------
\* Paths.  A path is the sequence of its segments, as str.split(os.sep) gives
\* them: "/data/x" is <<"", "data", "x">>, the empty string is <<"">>.
\* ---------------------------------------------------------------------------

\* The value of an unset directory (the environment variable is not defined).
NoPath == <<"None">>

\* os.sep.join(segments)
SepJoin(segs) == IF segs = <<>> THEN <<"">> ELSE segs

IsAbs(p) == Len(p) >= 2 /\ p[1] = ""

\* os.path.join(a, b)
OsPathJoin(a, b) ==
    IF IsAbs(b) \/ a = <<"">> THEN b
    ELSE IF a[Len(a)] = "" THEN SubSeq(a, 1, Len(a) - 1) \o b
    ELSE a \o b

RECURSIVE NormSegments(_, _, _)
NormSegments(segs, acc, abs) ==
    IF segs = <<>> THEN acc
    ELSE LET s == Head(segs)
             rest == Tail(segs)
         IN  IF s = "" \/ s = "." THEN NormSegments(rest, acc, abs)
             ELSE IF s # ".." THEN NormSegments(rest, Append(acc, s), abs)
             ELSE IF acc # <<>> /\ acc[Len(acc)] # ".."
                  THEN NormSegments(rest, SubSeq(acc, 1, Len(acc) - 1), abs)
             ELSE IF abs THEN NormSegments(rest, acc, abs)
             ELSE NormSegments(rest, Append(acc, s), abs)

\* os.path.normpath(p)
NormPath(p) ==
    LET comps == NormSegments(p, <<>>, IsAbs(p))
    IN  IF IsAbs(p) THEN (IF comps = <<>> THEN <<"", "">> ELSE <<"">> \o comps)
        ELSE IF comps = <<>> THEN <<".">> ELSE comps

\* The working directory of the process.
Cwd == <<"", "home", "user">>

\* os.path.abspath(p)
AbsPath(p) == NormPath(IF IsAbs(p) THEN p ELSE OsPathJoin(Cwd, p))

\* list.index(x)
IndexOf(dirs, x) == CHOOSE i \in 1..Len(dirs) : dirs[i] = x /\ \A j \in 1..(i - 1) : dirs[j] # x

Contains(dirs, x) == \E i \in 1..Len(dirs) : dirs[i] = x

\* The outcome of a call: a returned value or a raised exception, and whether
\* a warning was logged.
Returned(val, warned) == [status |-> "ok", val |-> val, warned |-> warned]
Raised(exc) == [status |-> exc, val |-> <<>>, warned |-> FALSE]

\* A faulty variant of throw_or_warn: required is ignored.
throw_or_warn_always_warn(required, otherwise) == otherwise

\* __throw_or_warn: the exception when required, a logged warning otherwise
\* (otherwise is what the caller goes on to return).
throw_or_warn(required, otherwise) ==
    IF required THEN Raised("ValueError") ELSE otherwise

\* The index at which the reference path is cut, 0 when no anchor is in it.
\* A faulty variant of DatadirAnchorIndex: the anchor that comes first in the
\* path is taken, whatever its name.
DatadirAnchorIndex_by_position(dirs) ==
    IF \E i \in 1..Len(dirs) : dirs[i] \in {"rerun", "pfsConfig", "pfsDesign"}
    THEN CHOOSE i \in 1..Len(dirs) :
            /\ dirs[i] \in {"rerun", "pfsConfig", "pfsDesign"}
            /\ \A j \in 1..(i - 1) : dirs[j] \notin {"rerun", "pfsConfig", "pfsDesign"}
    ELSE 0

\* The index get_datadir cuts the reference path at: 'rerun' before
\* 'pfsConfig' before 'pfsDesign', the first occurrence of the name.
DatadirAnchorIndex(dirs) ==
    IF Contains(dirs, "rerun") THEN IndexOf(dirs, "rerun")
    ELSE IF Contains(dirs, "pfsConfig") THEN IndexOf(dirs, "pfsConfig")
    ELSE IF Contains(dirs, "pfsDesign") THEN IndexOf(dirs, "pfsDesign")
    ELSE 0

Products == <<"pfsArm", "pfsMerged", "pfsSingle", "pfsObject", "pfsGAObject">>

RECURSIVE RerundirAnchorIndexFrom(_, _)
RerundirAnchorIndexFrom(dirs, n) ==
    IF n > Len(Products) THEN 0
    ELSE IF Contains(dirs, Products[n]) THEN IndexOf(dirs, Products[n])
    ELSE RerundirAnchorIndexFrom(dirs, n + 1)

RerundirAnchorIndex(dirs) == RerundirAnchorIndexFrom(dirs, 1)

\* The directory a reference path is cut to, or the default: abspath of an
\* unset default raises TypeError.
InferOrDefault(reference_path, index, default, required) ==
    IF reference_path # NoPath /\ index # 0
    THEN Returned(AbsPath(SepJoin(SubSeq(reference_path, 1, index - 1))), FALSE)
    ELSE LET fallback == IF default = NoPath THEN Raised("TypeError")
                         ELSE Returned(AbsPath(default), reference_path # NoPath)
         IN  IF reference_path # NoPath THEN throw_or_warn(required, fallback)
             ELSE fallback

get_datadir(reference_path, required, dd) ==
    InferOrDefault(reference_path,
                   IF reference_path = NoPath THEN 0 ELSE DatadirAnchorIndex(reference_path),
                   dd, required)

get_rerundir(reference_path, required, dd, rd) ==
    InferOrDefault(reference_path,
                   IF reference_path = NoPath THEN 0 ELSE RerundirAnchorIndex(reference_path),
                   IF dd = NoPath \/ rd = NoPath THEN NoPath ELSE OsPathJoin(dd, rd),
                   required)

\* ---------------------------------------------------------------------------
\* Product kinds, files and the connector.
\* ---------------------------------------------------------------------------

Kinds == {"pfsDesign", "pfsConfig", "pfsSingle"}

\* The identity fields of a product kind, in the order the filters are given.
Fields(kind) ==
    CASE kind = "pfsDesign" -> <<"pfsDesignId">>
      [] kind = "pfsConfig" -> <<"pfsDesignId", "visit", "date">>
      [] OTHER -> <<"catId", "tract", "patch", "objId", "visit">>

Names(kind) == {Fields(kind)[i] : i \in 1..Len(Fields(kind))}

\* The names that are attributes of the connector (its properties): the date
\* filter has no property.
HasAttr(k) == k \in {"pfsDesignId", "catId", "tract", "patch", "objId", "visit"}

DataRoot == <<"", "data">>
RerunRel == <<"rerun", "run1">>
RerunRoot == <<"", "data", "rerun", "run1">>

\* A file of the tree: the directory it is found under, whether the regex of
\* its kind matches its path, and the text of each capture group.
HexText(v) == ZeroPad(ToDigits(v, 16), HexWidth)
Text5(v) == ZeroPad(ToDigits(v, 10), CatWidth)
Text6(v) == ZeroPad(ToDigits(v, 10), VisitWidth)
Patch11 == <<"1", ",", "1">>

DesignFile(rx, id) ==
    [kind |-> "pfsDesign", root |-> DataRoot, rx |-> rx, tok |-> [pfsDesignId |-> id]]
ConfigFile(rx, id, visit, date) ==
    [kind |-> "pfsConfig", root |-> DataRoot, rx |-> rx,
     tok |-> [pfsDesignId |-> id, visit |-> visit, date |-> date]]
SingleFile(rx, objId, visit) ==
    [kind |-> "pfsSingle", root |-> RerunRoot, rx |-> rx,
     tok |-> [catId |-> Text5(1), tract |-> Text5(1), patch |-> Patch11,
              objId |-> objId, visit |-> visit]]

BadHex == SubSeq(HexText(2), 1, HexWidth - 1) \o <<"g">>

Universe ==
    { DesignFile(TRUE, HexText(1)), DesignFile(TRUE, HexText(42)),
      DesignFile(TRUE, BadHex), DesignFile(FALSE, HexText(3)),
      ConfigFile(TRUE, HexText(1), Text6(123), FormatDate(20240115)),
      ConfigFile(TRUE, HexText(1), Text6(123), FormatDate(20240116)),
      ConfigFile(TRUE, HexText(1), Text6(124), FormatDate(20241301)),
      SingleFile(TRUE, HexText(42), Text6(123)),
      SingleFile(TRUE, HexText(43), Text6(123)) }

\* The largest number of files in the tree.
MaxFiles == 2

Trees ==
    { t \in UNION { [1..n -> Universe] : n \in 0..MaxFiles } :
        \A i, j \in 1..Len(t) : i # j => t[i] # t[j] }

\* re.search(regex, path): the capture groups when the regex matches.
RegexMatches(f) == f.rx

\* The reference paths a caller passes to find and locate.
RefOf(kind) ==
    CASE kind = "pfsDesign" -> DataRoot \o <<"pfsDesign", "f">>
      [] kind = "pfsConfig" -> DataRoot \o <<"pfsConfig", "2024-01-15", "f">>
      [] OTHER -> RerunRoot \o <<"pfsSingle", "f">>

\* The query arguments a caller passes, for each field of the kind.
Choices(kind, k) ==
    CASE kind = "pfsDesign" -> {Absent, NoneArg, Single(1), AnyOf({1, 3})}
      [] kind = "pfsConfig" /\ k = "pfsDesignId" -> {Absent, NoneArg}
      [] kind = "pfsConfig" /\ k = "visit" -> {Absent, Between(100, 123)}
      [] kind = "pfsConfig" /\ k = "date" -> {Absent, NoneArg, Single(20240115)}
      [] kind = "pfsSingle" /\ k = "objId" -> {Absent, NoneArg, Single(42)}
      [] kind = "pfsSingle" /\ k = "visit" -> {Absent, Single(123)}
      [] OTHER -> {Absent}

Kwargs(kind) == { q \in [Names(kind) -> UNION {Choices(kind, k) : k \in Names(kind)}] :
                    \A k \in Names(kind) : q[k] \in Choices(kind, k) }

VARIABLES
    fs,         \* the files of the tree, in listing order
    datadir,    \* the connector's data directory
    rerundir,   \* the connector's rerun directory
    defaults,   \* the queries of the connector's own filters
    pc,         \* "idle", "loop" (inside discovery) or "done"
    call,       \* the call in progress
    params,     \* the filters of the call
    paths,      \* the result of glob
    idx,        \* the position of the loop in paths
    filenames,  \* the accumulated paths
    ids,        \* the accumulated values, one list for each filter name
    values,     \* the values parsed from the current candidate
    ret,        \* the outcome of the call
    trace,      \* the steps the call has taken
    memo        \* history: a completed find call and its outcome

vars == <<fs, datadir, rerundir, defaults, pc, call, params, paths, idx,
          filenames, ids, values, ret, trace, memo>>

InstanceFilters == {"pfsDesignId", "catId", "tract", "patch", "objId", "visit", "date"}

NoCall == [op |-> "none", kind |-> "none"]
NoRet == Raised("none")
NoMemo == [set |-> FALSE]

\* History: once a find is kept, whether another call has been made since.
Noted(m, c) == IF m.set /\ c # m.call THEN [m EXCEPT !.others = TRUE] ELSE m

Init ==
    /\ fs \in Trees
    /\ datadir \in {DataRoot, NoPath}
    /\ rerundir = RerunRel
    /\ defaults = [k \in InstanceFilters |-> Unconstrained]
    /\ pc = "idle"
    /\ call = NoCall
    /\ params = <<>>
    /\ paths = <<>>
    /\ idx = 0
    /\ filenames = <<>>
    /\ ids = <<>>
    /\ values = <<>>
    /\ ret = NoRet
    /\ trace = <<>>
    /\ memo = NoMemo

\* ---------------------------------------------------------------------------
\* Discovery: __find_files_and_match_params.
\* ---------------------------------------------------------------------------

\* A faulty variant of set_query: a constrained filter of the connector wins
\* over the method argument.
set_query_default_first(old, k, v, dflt) ==
    IF v = Absent THEN old
    ELSE IF HasAttr(k) /\ dflt[k] # Unconstrained THEN dflt[k]
    ELSE IF v # NoneArg THEN v
    ELSE old

\* The query a filter gets from the method argument v: the argument when it
\* is not None, the connector's attribute of that name when the argument is
\* None and there is one, its own query otherwise.
set_query(old, k, v, dflt) ==
    IF v = Absent THEN old
    ELSE IF v # NoneArg THEN v
    ELSE IF HasAttr(k) THEN dflt[k]
    ELSE old

\* A faulty variant of defaults_after: the call's filters are the connector's
\* own, so a method argument stays in them.
defaults_after_shared(dflt, kind, q) ==
    [k \in DOMAIN dflt |->
        IF k \in Names(kind) /\ q[k] \notin {Absent, NoneArg} THEN q[k] ELSE dflt[k]]

\* The connector's own filters after the update of the call's filters: the
\* call's filters are fresh objects, the assignment does not reach the
\* connector's.
defaults_after(dflt, kind, q) == dflt

\* The filters of a call: fresh for the kind, then updated from the arguments.
FiltersOf(kind, q, dflt) ==
    [k \in Names(kind) |-> set_query(Unconstrained, k, q[k], dflt)]

\* glob(glob_pattern): the files under root that the fragments match.
Glob(kind, root, ps) ==
    LET Hit(f) == /\ f.kind = kind
                  /\ f.root = root
                  /\ \A k \in Names(kind) :
                        GlobFragmentMatches(get_glob_pattern(k, ps[k]), f.tok[k])
    IN  SelectSeq(fs, Hit)

\* The body of the loop for a candidate the regex matches: parse and match
\* each field in turn; a parse that raises ends it.
RECURSIVE ParseAndMatch(_, _, _, _, _)
ParseAndMatch(f, fields, ps, vals, good) ==
    IF fields = <<>> THEN [raised |-> FALSE, values |-> vals, good |-> good]
    ELSE LET k == Head(fields)
             r == parse_value(k, f.tok[k])
         IN  IF ~r.ok THEN [raised |-> TRUE, values |-> vals, good |-> good]
             ELSE ParseAndMatch(f, Tail(fields), ps, [vals EXCEPT ![k] = r.v],
                                good /\ match(ps[k], r.v[1]))

\* A faulty variant of append_ids: the values are appended for every
\* candidate the regex matches.
append_ids_always(found, vals, good) ==
    [k \in DOMAIN found |-> Append(found[k], vals[k][1])]

\* The append of a kept candidate's values to the per-name lists.
append_ids(found, vals, good) ==
    IF good THEN [k \in DOMAIN found |-> Append(found[k], vals[k][1])] ELSE found

\* A faulty variant of get_single_file: of several files the first is returned.
get_single_file_first(files, found) ==
    IF Len(files) = 0 THEN Raised("FileNotFoundError")
    ELSE Returned([file |-> files[1],
                   identity |-> [k \in DOMAIN found |-> found[k][1]]], FALSE)

\* __get_single_file: FileNotFoundError for no file and for several files.
get_single_file(files, found) ==
    IF Len(files) = 0 THEN Raised("FileNotFoundError")
    ELSE IF Len(files) > 1 THEN Raised("FileNotFoundError")
    ELSE Returned([file |-> files[1],
                   identity |-> [k \in DOMAIN found |-> found[k][1]]], FALSE)

Running(warned) == [status |-> "running", val |-> <<>>, warned |-> warned]

\* The directory the glob starts from: the data directory, joined with the
\* rerun directory for pfsSingle.
RootOf(kind, ref) ==
    LET dd == get_datadir(ref, FALSE, datadir)
        rd == get_rerundir(ref, FALSE, datadir, rerundir)
    IN  IF dd.status # "ok" THEN dd
        ELSE IF kind # "pfsSingle" THEN dd
        ELSE IF rd.status # "ok" THEN rd
        ELSE Returned(OsPathJoin(dd.val, rd.val), dd.warned \/ rd.warned)

\* find_*: resolve the root, build the filters, glob, and enter the loop.
BeginFind(kind, ref, q) ==
    LET root == RootOf(kind, ref)
        ps == FiltersOf(kind, q, defaults)
    IN  IF root.status # "ok"
        THEN /\ pc' = "done"
             /\ ret' = root
             /\ UNCHANGED <<params, paths, idx, filenames, ids, values>>
        ELSE /\ pc' = "loop"
             /\ ret' = Running(root.warned)
             /\ params' = ps
             /\ paths' = Glob(kind, root.val, ps)
             /\ idx' = 1
             /\ filenames' = <<>>
             /\ ids' = [k \in Names(kind) |-> <<>>]
             /\ values' = [k \in Names(kind) |-> <<>>]

Find(kind, ref, q) ==
    /\ pc = "idle"
    /\ call' = [op |-> "find", kind |-> kind, ref |-> ref, q |-> q]
    /\ trace' = <<"find">>
    /\ BeginFind(kind, ref, q)
    /\ defaults' = defaults_after(defaults, kind, q)
    /\ memo' = Noted(memo, call')
    /\ UNCHANGED <<fs, datadir, rerundir>>

Locate(kind, ref, q) ==
    /\ pc = "idle"
    /\ call' = [op |-> "locate", kind |-> kind, ref |-> ref, q |-> q]
    /\ trace' = <<"find">>
    /\ BeginFind(kind, ref, q)
    /\ defaults' = defaults_after(defaults, kind, q)
    /\ memo' = Noted(memo, call')
    /\ UNCHANGED <<fs, datadir, rerundir>>

\* One iteration of the loop over paths.
LoopStep ==
    /\ pc = "loop"
    /\ idx <= Len(paths)
    /\ LET f == paths[idx]
           r == ParseAndMatch(f, Fields(call.kind), params, values, TRUE)
       IN  IF ~RegexMatches(f)
           THEN /\ idx' = idx + 1
                /\ UNCHANGED <<pc, ret, values, filenames, ids>>
           ELSE IF r.raised
           THEN /\ pc' = "done"
                /\ ret' = Raised("ValueError")
                /\ values' = r.values
                /\ UNCHANGED <<idx, filenames, ids>>
           ELSE /\ idx' = idx + 1
                /\ values' = r.values
                /\ filenames' = IF r.good THEN Append(filenames, f) ELSE filenames
                /\ ids' = append_ids(ids, r.values, r.good)
                /\ UNCHANGED <<pc, ret>>
    /\ UNCHANGED <<fs, datadir, rerundir, defaults, memo, call, params, paths, trace>>

\* The end of the loop: find returns the lists, locate the single file.
LoopEnd ==
    /\ pc = "loop"
    /\ idx > Len(paths)
    /\ call.op \in {"find", "locate"}
    /\ pc' = "done"
    /\ ret' = IF call.op = "find"
              THEN Returned([files |-> filenames, ids |-> ids], ret.warned)
              ELSE get_single_file(filenames, ids)
    /\ UNCHANGED <<fs, datadir, rerundir, defaults, memo, call, params, paths, idx,
                   filenames, ids, values, trace>>

\* The caller takes the outcome; the locals of the call are gone.
Return ==
    /\ pc = "done"
    /\ pc' = "idle"
    /\ call' = NoCall
    /\ params' = <<>>
    /\ paths' = <<>>
    /\ idx' = 0
    /\ filenames' = <<>>
    /\ ids' = <<>>
    /\ values' = <<>>
    /\ ret' = NoRet
    /\ trace' = <<>>
    /\ UNCHANGED <<fs, datadir, rerundir, defaults, memo>>

\* ---------------------------------------------------------------------------
\* Directory inference and filename parsing, called on their own.
\* ---------------------------------------------------------------------------

\* The reference paths a caller passes to get_datadir and get_rerundir.
RefPaths ==
    { NoPath,
      RefOf("pfsDesign"), RefOf("pfsConfig"), RefOf("pfsSingle"),
      <<"", "x", "pfsDesign", "rerun", "f">>,
      <<"", "x", "pfsDesign", "pfsConfig", "f">>,
      <<"", "a", "rerun", "b", "rerun", "f">>,
      <<"", "rerun", "f">>,
      <<"", "pfsSingle", "f">>,
      <<"rerun", "f">>,
      <<"data", "pfsConfig", "f">>,
      <<"", "tmp", "f">>,
      <<"f">> }

GetDatadir(reference_path, required) ==
    /\ pc = "idle"
    /\ pc' = "done"
    /\ call' = [op |-> "get_datadir", kind |-> "none", ref |-> reference_path,
                required |-> required]
    /\ trace' = <<"get_datadir">>
    /\ ret' = get_datadir(reference_path, required, datadir)
    /\ UNCHANGED <<fs, datadir, rerundir, defaults, memo, params, paths, idx,
                   filenames, ids, values>>

GetRerundir(reference_path, required) ==
    /\ pc = "idle"
    /\ pc' = "done"
    /\ call' = [op |-> "get_rerundir", kind |-> "none", ref |-> reference_path,
                required |-> required]
    /\ trace' = <<"get_rerundir">>
    /\ ret' = get_rerundir(reference_path, required, datadir, rerundir)
    /\ UNCHANGED <<fs, datadir, rerundir, defaults, memo, params, paths, idx,
                   filenames, ids, values>>

\* The values parsed from the capture groups of f, one for each name.
RECURSIVE ParseAll(_, _, _)
ParseAll(f, fields, vals) ==
    IF fields = <<>> THEN Returned(vals, FALSE)
    ELSE LET k == Head(fields)
             r == parse_value(k, f.tok[k])
         IN  IF ~r.ok THEN Raised("ValueError")
             ELSE ParseAll(f, Tail(fields), [n \in DOMAIN vals \cup {k} |->
                                               IF n = k THEN r.v[1] ELSE vals[n]])

\* __parse_filename_params: the identity parsed from a path, None (the empty
\* value, with a warning) or ValueError when the regex does not match.
parse_filename_params(f, fields, required) ==
    IF RegexMatches(f) THEN ParseAll(f, fields, <<>>)
    ELSE throw_or_warn(required, Returned(<<>>, TRUE))

ParseFilename(f, required) ==
    /\ pc = "idle"
    /\ pc' = "done"
    /\ call' = [op |-> "parse", kind |-> f.kind, path |-> f, required |-> required]
    /\ trace' = <<"parse">>
    /\ ret' = parse_filename_params(f, Fields(f.kind), required)
    /\ UNCHANGED <<fs, datadir, rerundir, defaults, memo, params, paths, idx,
                   filenames, ids, values>>

\* ---------------------------------------------------------------------------
\* The load operations.
\* ---------------------------------------------------------------------------

NotGiven == [given |-> FALSE]
FilenameArg(f, withDir) == [given |-> TRUE, f |-> f, dir |-> withDir]
IdentityArg(id) == [given |-> TRUE, id |-> id]

\* A faulty variant of ensure_one_param: no argument at all is accepted.
ensure_one_param_at_most_one(filename, identity) ==
    IF (IF filename.given THEN 1 ELSE 0) + (IF identity.given THEN 1 ELSE 0) > 1
    THEN Raised("ValueError") ELSE Returned(<<>>, FALSE)

\* __ensure_one_param(filename=..., identity=...): ValueError unless exactly
\* one of the two is not None.
ensure_one_param(filename, identity) ==
    IF (IF filename.given THEN 1 ELSE 0) + (IF identity.given THEN 1 ELSE 0) # 1
    THEN Raised("ValueError") ELSE Returned(<<>>, FALSE)

\* The directory of a product below the root, as the directory format of the
\* kind prints it from an identity.
DirFormat(kind, id) ==
    CASE kind = "pfsDesign" -> <<"pfsDesign">>
      [] kind = "pfsConfig" -> <<"pfsConfig", FormatDate(id.date)>>
      [] OTHER -> <<"pfsSingle", format_value("catId", id.catId),
                    format_value("tract", id.tract), id.patch>>

\* The directory a file of the tree is in, and its path as the caller of load
\* writes it: with the directory, or the basename alone.
SubDirOf(f) ==
    CASE f.kind = "pfsDesign" -> <<"pfsDesign">>
      [] f.kind = "pfsConfig" -> <<"pfsConfig", f.tok.date>>
      [] OTHER -> <<"pfsSingle", f.tok.catId, f.tok.tract, f.tok.patch>>

Dirname(f) == f.root \o SubDirOf(f)

PathOf(filename) ==
    IF filename.dir THEN Dirname(filename.f) \o <<"f">> ELSE <<"f">>

\* The identity the tokens of a well-formed file stand for.
IdentityOf(f) == ParseAll(f, Fields(f.kind), <<>>).val

WellFormed(f) == f.rx /\ ParseAll(f, Fields(f.kind), <<>>).status = "ok"

\* The external loader (PfsDesign.read, PfsConfig.read, PfsSingle.read).
Loaded(kind, id, dir) ==
    Returned([object |-> [type |-> kind, identity |-> id, dirName |-> dir],
              identity |-> id], FALSE)

\* The fields parse_pfsConfig reads: the date only when the path has a
\* directory part.
ParsedFields(kind, filename) ==
    IF kind = "pfsConfig" /\ ~filename.dir THEN <<"pfsDesignId", "visit">>
    ELSE Fields(kind)

\* The keyword arguments load_pfsConfig passes on to locate_pfsConfig.
KwargsOf(kind, id) ==
    [k \in Names(kind) |-> IF k \in DOMAIN id THEN Single(id[k]) ELSE Absent]

\* load_pfsDesign and load_pfsSingle, and load_pfsConfig by identity: the
\* directory is formatted from the identity and the loader is called.
LoadDirect(kind, filename, identity) ==
    LET checked == ensure_one_param(filename, identity)
        parsed == IF filename.given
                  THEN parse_filename_params(filename.f, ParsedFields(kind, filename), TRUE)
                  ELSE IF identity.given THEN Returned(identity.id, FALSE)
                  ELSE Raised("AttributeError")
        steps == IF filename.given THEN <<"ensure_one_param", "parse">>
                 ELSE <<"ensure_one_param">>
        base == IF kind = "pfsConfig" THEN get_datadir(NoPath, FALSE, datadir)
                ELSE IF datadir = NoPath THEN Raised("TypeError")
                ELSE IF kind = "pfsDesign" THEN Returned(datadir, FALSE)
                ELSE Returned(OsPathJoin(datadir, rerundir), FALSE)
        tail == IF kind = "pfsSingle" /\ filename.given /\ filename.dir
                THEN Dirname(filename.f) ELSE <<"">>
    IN  IF checked.status # "ok"
        THEN ret' = checked /\ trace' = <<"ensure_one_param">>
        ELSE IF parsed.status # "ok"
        THEN ret' = parsed /\ trace' = steps
        ELSE IF base.status # "ok"
        THEN ret' = base /\ trace' = Append(steps, "dir")
        ELSE /\ trace' = steps \o <<"dir", "loader">>
             /\ ret' = Loaded(kind, parsed.val,
                              IF kind = "pfsSingle"
                              THEN OsPathJoin(OsPathJoin(base.val, DirFormat(kind, parsed.val)), tail)
                              ELSE OsPathJoin(base.val, DirFormat(kind, parsed.val)))

Load(kind, filename, identity) ==
    /\ pc = "idle"
    /\ kind # "pfsConfig" \/ ~filename.given \/ identity.given
    /\ pc' = "done"
    /\ call' = [op |-> "load", kind |-> kind, filename |-> filename, identity |-> identity]
    /\ LoadDirect(kind, filename, identity)
    /\ UNCHANGED <<fs, datadir, rerundir, defaults, memo, params, paths, idx,
                   filenames, ids, values>>

\* load_pfsConfig by filename: the identity is parsed from the filename, then
\* the file is located with it, the filename as the reference path.
LoadConfigByFilename(filename) ==
    LET checked == ensure_one_param(filename, NotGiven)
        parsed == parse_filename_params(filename.f, ParsedFields("pfsConfig", filename), TRUE)
    IN  /\ pc = "idle"
        /\ filename.given
        /\ call' = [op |-> "load", kind |-> "pfsConfig", filename |-> filename,
                    identity |-> NotGiven]
        /\ IF checked.status # "ok"
           THEN /\ pc' = "done"
                /\ ret' = checked
                /\ trace' = <<"ensure_one_param">>
                /\ UNCHANGED <<params, paths, idx, filenames, ids, values>>
           ELSE IF parsed.status # "ok"
           THEN /\ pc' = "done"
                /\ ret' = parsed
                /\ trace' = <<"ensure_one_param", "parse">>
                /\ UNCHANGED <<params, paths, idx, filenames, ids, values>>
           ELSE /\ trace' = <<"ensure_one_param", "parse", "find">>
                /\ BeginFind("pfsConfig", PathOf(filename), KwargsOf("pfsConfig", parsed.val))
        /\ defaults' = IF checked.status = "ok" /\ parsed.status = "ok"
                       THEN defaults_after(defaults, "pfsConfig", KwargsOf("pfsConfig", parsed.val))
                       ELSE defaults
        /\ UNCHANGED <<fs, datadir, rerundir, memo>>

\* The end of the loop inside load_pfsConfig: the single file, its directory,
\* the loader.
LoadLocated ==
    LET single == get_single_file(filenames, ids)
    IN  /\ pc = "loop"
        /\ idx > Len(paths)
        /\ call.op = "load"
        /\ pc' = "done"
        /\ IF single.status # "ok"
           THEN ret' = single /\ trace' = trace
           ELSE /\ trace' = trace \o <<"dir", "loader">>
                /\ ret' = Loaded("pfsConfig", single.val.identity, Dirname(single.val.file))
        /\ UNCHANGED <<fs, datadir, rerundir, defaults, memo, call, params, paths, idx,
                       filenames, ids, values>>

\* The arguments a caller passes to load.
FilenameArgs(kind) ==
    {NotGiven} \cup {FilenameArg(f, d) : f \in {g \in Universe : g.kind = kind}, d \in BOOLEAN}

IdentityArgs(kind) ==
    {NotGiven} \cup {IdentityArg(IdentityOf(f)) : f \in {g \in Universe : g.kind = kind /\ WellFormed(g)}}

\* ---------------------------------------------------------------------------
\* The caller between calls.
\* ---------------------------------------------------------------------------

\* The caller sets the query of the connector's own filter k (the filter is
\* reached through the property of its name).
SetDefault(k, q) ==
    /\ pc = "idle"
    /\ defaults[k] # q
    /\ defaults' = [defaults EXCEPT ![k] = q]
    /\ UNCHANGED <<fs, datadir, rerundir, pc, call, params, paths, idx,
                   filenames, ids, values, ret, trace, memo>>

\* History: the arguments and the outcome of a completed find are kept, once.
Remember ==
    /\ pc = "done"
    /\ call.op = "find"
    /\ ~memo.set
    /\ memo' = [set |-> TRUE, call |-> call, ret |-> ret, others |-> FALSE]
    /\ UNCHANGED <<fs, datadir, rerundir, defaults, pc, call, params, paths, idx,
                   filenames, ids, values, ret, trace>>

Next ==
    \/ \E kind \in Kinds : \E q \in Kwargs(kind) : Find(kind, NoPath, q)
    \/ \E kind \in Kinds : \E q \in Kwargs(kind) : Find(kind, RefOf(kind), q)
    \/ \E kind \in Kinds : \E q \in Kwargs(kind) : Locate(kind, NoPath, q)
    \/ \E ref \in RefPaths, required \in BOOLEAN : GetDatadir(ref, required)
    \/ \E ref \in RefPaths, required \in BOOLEAN : GetRerundir(ref, required)
    \/ \E f \in Universe, required \in BOOLEAN : ParseFilename(f, required)
    \/ \E kind \in Kinds : \E fa \in FilenameArgs(kind), ia \in IdentityArgs(kind) :
            Load(kind, fa, ia)
    \/ \E fa \in FilenameArgs("pfsConfig") : LoadConfigByFilename(fa)
    \/ LoadLocated
    \/ \E q \in {Unconstrained, Single(1)} : SetDefault("pfsDesignId", q)
    \/ LoopStep
    \/ LoopEnd
    \/ Return

Spec == Init /\ [][Next]_vars

\* The calls of find_pfsDesign and locate_pfsDesign on one connector over a
\* tree of design files, with the outcome of one earlier find kept.
InitIdem ==
    /\ fs \in {t \in Trees : \A i \in 1..Len(t) : t[i].kind = "pfsDesign"}
    /\ datadir \in {DataRoot, NoPath}
    /\ rerundir = RerunRel
    /\ defaults \in {[k \in InstanceFilters |-> Unconstrained],
                     [k \in InstanceFilters |->
                        IF k = "pfsDesignId" THEN Single(1) ELSE Unconstrained]}
    /\ pc = "idle"
    /\ call = NoCall
    /\ params = <<>>
    /\ paths = <<>>
    /\ idx = 0
    /\ filenames = <<>>
    /\ ids = <<>>
    /\ values = <<>>
    /\ ret = NoRet
    /\ trace = <<>>
    /\ memo = NoMemo

NextIdem ==
    \/ \E q \in Kwargs("pfsDesign") : Find("pfsDesign", NoPath, q)
    \/ \E q \in Kwargs("pfsDesign") : Find("pfsDesign", RefOf("pfsDesign"), q)
    \/ \E q \in Kwargs("pfsDesign") : Locate("pfsDesign", NoPath, q)
    \/ LoopStep
    \/ LoopEnd
    \/ Remember
    \/ Return

SpecIdem == InitIdem /\ [][NextIdem]_vars

\* ---------------------------------------------------------------------------
\* A HexIDFilter on its own: a value is formatted, the text is parsed.
\* ---------------------------------------------------------------------------

\* The values formatted: every value up to MaxHex, and values at the digit
\* boundaries up to the largest integer of the checker.
MaxHex == 48
HexValues == 0..MaxHex \cup {255, 256, 4095, 4096, 65535, 65536, 1048576, 2147483647}

format_value_hex(format, v) ==
    /\ pc = "idle"
    /\ pc' = "done"
    /\ call' = [op |-> "format_value", kind |-> "none", format |-> format, v |-> v]
    /\ trace' = <<"format_value">>
    /\ ret' = Returned(HexIDFilter_format_value(format, v), FALSE)
    /\ UNCHANGED <<fs, datadir, rerundir, defaults, memo, params, paths, idx,
                   filenames, ids, values>>

\* _parse_value on the text the format call returned.
parse_value_hex ==
    /\ pc = "done"
    /\ call.op = "format_value"
    /\ call' = [op |-> "_parse_value", kind |-> "none", format |-> call.format,
                v |-> call.v, value |-> ret.val]
    /\ trace' = Append(trace, "_parse_value")
    /\ ret' = LET r == HexIDFilter_parse_value(ret.val)
              IN  IF r.ok THEN Returned(r.v[1], FALSE) ELSE Raised("ValueError")
    /\ UNCHANGED <<fs, datadir, rerundir, defaults, memo, pc, params, paths, idx,
                   filenames, ids, values>>

InitHex ==
    /\ fs = <<>>
    /\ datadir = DataRoot
    /\ rerundir = RerunRel
    /\ defaults = [k \in InstanceFilters |-> Unconstrained]
    /\ pc = "idle"
    /\ call = NoCall
    /\ params = <<>>
    /\ paths = <<>>
    /\ idx = 0
    /\ filenames = <<>>
    /\ ids = <<>>
    /\ values = <<>>
    /\ ret = NoRet
    /\ trace = <<>>
    /\ memo = NoMemo

NextHex ==
    \/ \E format \in HexFormats, v \in HexValues : format_value_hex(format, v)
    \/ parse_value_hex
    \/ Return

SpecHex == InitHex /\ [][NextHex]_vars

\* ---------------------------------------------------------------------------
\* Properties.
\* ---------------------------------------------------------------------------

\* The call has built its filters and listed its candidates.
InDiscovery == pc \in {"loop", "done"} /\ DOMAIN params # {}

\* The loop has run over every candidate.
LoopCompleted == pc = "done" /\ DOMAIN params # {} /\ idx > Len(paths)

AllParse(f) == \A k \in Names(f.kind) : parse_value(k, f.tok[k]).ok

\* The candidates that the regex matches and whose parsed values every filter
\* matches, in listing order.
Kept(candidates, ps) ==
    LET Keep(f) == /\ f.rx
                   /\ AllParse(f)
                   /\ \A k \in Names(f.kind) : match(ps[k], parse_value(k, f.tok[k]).v[1])
    IN  SelectSeq(candidates, Keep)

\* C1: locate on a query whose find result has no file fails with
\* FileNotFoundError (the NotFoundError of the specification); with one file
\* it returns that file and the identity parsed from it; with two or more it
\* fails with an error of another kind than the one for no file.
C1_LocateSingleResult ==
    (LoopCompleted /\ call.op = "locate") =>
        /\ Len(filenames) = 0 => ret.status = "FileNotFoundError"
        /\ Len(filenames) = 1 =>
              /\ ret.status = "ok"
              /\ ret.val.file = filenames[1]
              /\ ret.val.identity = IdentityOf(filenames[1])
        /\ Len(filenames) >= 2 => ret.status \notin {"ok", "FileNotFoundError"}

\* C2: whatever candidates the glob lists, find returns exactly the
\* candidates that the regex matches and every filter matches, in listing
\* order, and raises nothing.
C2_FindReturnsKept ==
    (pc = "done" /\ DOMAIN params # {} /\ call.op = "find") =>
        /\ ret.status = "ok"
        /\ ret.val.files = Kept(paths, params)

\* C3: at every point of the loop and in the returned result the keys of the
\* identifier record are the names of the filters, every list is as long as
\* the list of paths, and the values at a position are the values parsed from
\* the path at that position.
AlignedWith(files, found, kind) ==
    /\ DOMAIN found = Names(kind)
    /\ \A k \in Names(kind) : Len(found[k]) = Len(files)
    /\ \A i \in 1..Len(files) : \A k \in Names(kind) :
          /\ i <= Len(found[k])
          /\ parse_value(k, files[i].tok[k]) = Parsed(found[k][i])

C3_Aligned ==
    InDiscovery =>
        /\ AlignedWith(filenames, ids, call.kind)
        /\ (call.op = "find" /\ ret.status = "ok") =>
              AlignedWith(ret.val.files, ret.val.ids, call.kind)

\* A find has returned fewer files than were listed, one of the dropped
\* candidates being one the regex matches.
C3_Witness ==
    /\ LoopCompleted
    /\ call.op = "find"
    /\ ret.status = "ok"
    /\ Len(ret.val.files) = 1
    /\ \E i \in 1..Len(paths) : paths[i].rx /\ paths[i] # ret.val.files[1]

\* C4: a candidate that the regex matches and whose token does not parse for
\* some filter is dropped: find raises nothing and returns the candidates
\* that are kept.
C4_ParseFailureDropped ==
    (pc = "done" /\ DOMAIN params # {} /\ call.op = "find"
        /\ \E i \in 1..Len(paths) : paths[i].rx /\ ~AllParse(paths[i])) =>
        /\ ret.status = "ok"
        /\ ret.val.files = Kept(paths, params)

\* C5: a load with both of filename and identity, or with neither, fails
\* with ValueError (the InvalidQueryError of the specification) with no step
\* taken after the check; a load with exactly one of them passes the check.
C5_ExactlyOneOfFilenameIdentity ==
    call.op = "load" =>
        /\ (call.filename.given = call.identity.given) =>
              /\ pc = "done"
              /\ ret.status = "ValueError"
              /\ trace = <<"ensure_one_param">>
        /\ (call.filename.given # call.identity.given) =>
              /\ Len(trace) >= 2
              /\ trace[1] = "ensure_one_param"

\* A load with both arguments given has failed.
C5_Witness ==
    /\ call.op = "load"
    /\ call.filename.given
    /\ call.identity.given
    /\ ret.status = "ValueError"

\* C6 as stated: on a path the regex does not match, the parser raises
\* ValueError (the FormatMismatchError of the specification) when required and
\* returns None with a warning otherwise; on a path the regex matches it
\* returns an identifier whose keys are the names of the filters.
C6_ExtractAsStated ==
    (pc = "done" /\ call.op = "parse") =>
        /\ (~call.path.rx /\ call.required) => ret.status = "ValueError"
        /\ (~call.path.rx /\ ~call.required) =>
              ret.status = "ok" /\ ret.warned /\ DOMAIN ret.val = {}
        /\ call.path.rx => ret.status = "ok" /\ DOMAIN ret.val = Names(call.kind)

\* C6 amended: as stated, but on a path the regex matches the identifier is
\* returned when every captured token parses, with the parsed value of every
\* filter name and no other key; when a token does not parse, the ValueError
\* of parse_value reaches the caller.
C6_Extract ==
    (pc = "done" /\ call.op = "parse") =>
        /\ (~call.path.rx /\ call.required) => ret.status = "ValueError"
        /\ (~call.path.rx /\ ~call.required) =>
              ret.status = "ok" /\ ret.warned /\ DOMAIN ret.val = {}
        /\ (call.path.rx /\ AllParse(call.path)) =>
              /\ ret.status = "ok"
              /\ DOMAIN ret.val = Names(call.kind)
              /\ \A k \in Names(call.kind) :
                    Parsed(ret.val[k]) = parse_value(k, call.path.tok[k])
        /\ (call.path.rx /\ ~AllParse(call.path)) => ret.status = "ValueError"

\* The parser has returned None, with a warning, for a path the regex does
\* not match.
C6_Witness ==
    /\ pc = "done"
    /\ call.op = "parse"
    /\ ~call.path.rx
    /\ ~call.required
    /\ ret.status = "ok"
    /\ ret.warned

\* C7: a filter whose method argument is given and not None has exactly that
\* argument as its query; a filter whose argument is None or absent is
\* unconstrained or has the query of the connector's own filter of that name.
C7_ArgumentPrecedence ==
    (InDiscovery /\ call.op \in {"find", "locate"}) =>
        \A k \in Names(call.kind) :
            IF call.q[k] \notin {Absent, NoneArg}
            THEN params[k] = call.q[k]
            ELSE params[k] \in {Unconstrained, defaults[k]}

\* A call with one argument None, taken from the connector's constrained
\* filter, and another argument given.
C7_Witness ==
    /\ pc = "loop"
    /\ call.op = "find"
    /\ call.kind = "pfsConfig"
    /\ call.q["pfsDesignId"] = NoneArg
    /\ defaults["pfsDesignId"] = Single(1)
    /\ params["pfsDesignId"] = Single(1)
    /\ call.q["date"] = Single(20240115)
    /\ params["date"] = Single(20240115)

\* The text of a path before the segment at index i.
PathAbove(p, i) == SubSeq(p, 1, i - 1) \o <<"">>

\* C8: get_datadir and get_rerundir return the part of the reference path
\* above the anchor when the path has one; with a reference path without an
\* anchor they raise ValueError (the DirectoryInferenceError of the
\* specification) when required, and otherwise log a warning and return the
\* configured default; with no reference path they return the configured
\* default with no warning.
C8_DirectoryPrecedence ==
    (pc = "done" /\ call.op \in {"get_datadir", "get_rerundir"}) =>
        LET ref == call.ref
            i == IF ref = NoPath THEN 0
                 ELSE IF call.op = "get_datadir" THEN DatadirAnchorIndex(ref)
                 ELSE RerundirAnchorIndex(ref)
            default == IF call.op = "get_datadir" \/ datadir = NoPath THEN datadir
                       ELSE OsPathJoin(datadir, rerundir)
        IN  /\ (ref # NoPath /\ i # 0) =>
                  ret = Returned(AbsPath(PathAbove(ref, i)), FALSE)
            /\ (ref # NoPath /\ i = 0 /\ call.required) => ret.status = "ValueError"
            /\ (ref # NoPath /\ i = 0 /\ ~call.required /\ default # NoPath) =>
                  ret = Returned(AbsPath(default), TRUE)
            /\ (ref = NoPath /\ default # NoPath) =>
                  ret = Returned(AbsPath(default), FALSE)

\* C9: a find with the arguments of an earlier find on the same connector
\* and tree has the outcome of the earlier one, whatever calls were made in
\* between.
C9_Idempotent ==
    (pc = "done" /\ call.op = "find" /\ memo.set /\ memo.call = call) =>
        /\ ret.status = memo.ret.status
        /\ ret.status = "ok" =>
              /\ ret.val.files = memo.ret.val.files
              /\ ret.val.ids = memo.ret.val.ids

\* A find is repeated after another call and has returned files again.
C9_Witness ==
    /\ pc = "done"
    /\ call.op = "find"
    /\ memo.set
    /\ memo.others
    /\ memo.call = call
    /\ ret.status = "ok"
    /\ Len(ret.val.files) >= 1

\* C10: with the pfsSingle files of objId ...2a and ...2b, both of visit
\* 000123, in the tree, find with visit=123 returns both paths with objId 42
\* and 43 and visit 123; locate with objId=42 as well returns the first.
File2a == SingleFile(TRUE, HexText(42), Text6(123))
File2b == SingleFile(TRUE, HexText(43), Text6(123))

InTree(f) == \E i \in 1..Len(fs) : fs[i] = f

SingleQuery(objId, visit) ==
    [k \in Names("pfsSingle") |->
        IF k = "objId" THEN objId ELSE IF k = "visit" THEN visit ELSE Absent]

C10_HexScenario ==
    (/\ pc = "done"
     /\ call.op \in {"find", "locate"}
     /\ call.kind = "pfsSingle"
     /\ InTree(File2a)
     /\ InTree(File2b)
     /\ datadir # NoPath \/ call.ref # NoPath) =>
        /\ (call.op = "find" /\ call.q = SingleQuery(Absent, Single(123))) =>
              /\ ret.status = "ok"
              /\ Len(ret.val.files) = 2
              /\ \A i \in 1..2 :
                    /\ ret.val.files[i] \in {File2a, File2b}
                    /\ ret.val.ids["objId"][i] = IF ret.val.files[i] = File2a THEN 42 ELSE 43
                    /\ ret.val.ids["visit"][i] = 123
              /\ ret.val.files[1] # ret.val.files[2]
        /\ (call.op = "locate" /\ call.q = SingleQuery(Single(42), Single(123))) =>
              /\ ret.status = "ok"
              /\ ret.val.file = File2a
              /\ ret.val.identity["objId"] = 42
              /\ ret.val.identity["visit"] = 123

\* The find of the scenario has returned the two files.
C10_Witness ==
    /\ pc = "done"
    /\ call.op = "find"
    /\ call.kind = "pfsSingle"
    /\ call.q = SingleQuery(Absent, Single(123))
    /\ ret.status = "ok"
    /\ Len(ret.val.files) = 2

\* C11: for every non-negative integer v and each print format of the
\* hexadecimal filter (the default '0x{:x}' and the zero-padded '{:016x}'),
\* parsing the text that formatting v produced with _parse_value returns v.
C11_HexRoundTrip ==
    (pc = "done" /\ call.op = "_parse_value") =>
        (ret.status = "ok" /\ ret.val = call.v)

\* The default format has printed 255 as 0xff and the parse has returned 255.
C11_Witness ==
    /\ pc = "done"
    /\ call.op = "_parse_value"
    /\ call.format = "0x{:x}"
    /\ call.value = <<"0", "x", "f", "f">>
    /\ ret.status = "ok"
    /\ ret.val = 255

\* load_pfsConfig called with a filename and no identity.
LoadByFilename ==
    /\ call.op = "load"
    /\ call.kind = "pfsConfig"
    /\ call.filename.given
    /\ ~call.identity.given

HasStep(step) == \E i \in 1..Len(trace) : trace[i] = step

\* The queries locate_pfsConfig gets from the identity parse_pfsConfig read
\* from the filename: one value for each field read, no constraint otherwise.
QueriesFromFilename(filename) ==
    LET read == ParsedFields("pfsConfig", filename)
        identity == parse_filename_params(filename.f, read, TRUE).val
    IN  [k \in Names("pfsConfig") |->
            IF Contains(read, k) THEN Single(identity[k]) ELSE Unconstrained]

InstanceState == <<datadir, rerundir, defaults>>

\* A step of a find or locate call: its start, an iteration of its loop, its
\* end or its return to the caller.
FindOrLocateStep ==
    \/ call.op \in {"find", "locate"}
    \/ call'.op \in {"find", "locate"}

\* The filters of the call are fresh ones updated from the arguments of this
\* call alone (and, for an argument that is None, from the connector's filter).
FreshFilters ==
    (pc = "loop" /\ call.op \in {"find", "locate"}) =>
        \A k \in Names(call.kind) :
            params[k] = CASE call.q[k] = Absent -> Unconstrained
                          [] call.q[k] = NoneArg ->
                                IF HasAttr(k) THEN defaults[k] ELSE Unconstrained
                          [] OTHER -> call.q[k]

\* C13: no step of a find or locate call, successful or failing, changes the
\* connector's instance state (datadir, rerundir and the queries of its own
\* filters), and the filters a call works with are built from fresh filters
\* and its own arguments, so that a constraint passed to one call is not
\* seen by a later call.
C13_InstanceStateUnchanged ==
    /\ []FreshFilters
    /\ [][FindOrLocateStep => UNCHANGED InstanceState]_vars

\* A locate constrained to the designs 1 and 3 has failed, and the
\* connector's own pfsDesignId filter still has the query the caller gave it.
C13_Witness ==
    /\ pc = "done"
    /\ call.op = "locate"
    /\ call.kind = "pfsDesign"
    /\ call.q.pfsDesignId = AnyOf({1, 3})
    /\ ret.status = "FileNotFoundError"
    /\ defaults.pfsDesignId = Single(1)
    /\ datadir = DataRoot
    /\ rerundir = RerunRel

\* The anchor names of get_datadir, in the order of their priority.
DatadirAnchors == <<"rerun", "pfsConfig", "pfsDesign">>

\* The anchor of highest priority among those in the path.
ChosenAnchor(ref) ==
    DatadirAnchors[CHOOSE n \in 1..Len(DatadirAnchors) :
                        /\ Contains(ref, DatadirAnchors[n])
                        /\ \A m \in 1..(n - 1) : ~Contains(ref, DatadirAnchors[m])]

FirstOccurrence(ref, name) ==
    CHOOSE i \in 1..Len(ref) : ref[i] = name /\ \A j \in 1..(i - 1) : ref[j] # name

\* p is a strict prefix of the segments q.
StrictPrefix(p, q) == Len(p) < Len(q) /\ \A j \in 1..Len(p) : p[j] = q[j]

\* The segments of a returned directory; the root directory is the empty
\* first segment alone.
RootSegments(p) == IF p = <<"", "">> THEN <<"">> ELSE p

\* get_datadir has returned for a reference path with an anchor in it.
DatadirInferred ==
    /\ pc = "done"
    /\ call.op = "get_datadir"
    /\ call.ref # NoPath
    /\ \E n \in 1..Len(DatadirAnchors) : Contains(call.ref, DatadirAnchors[n])

\* C14: for a reference path with one or more anchors in it get_datadir
\* takes the anchor of highest priority ('rerun', then 'pfsConfig', then
\* 'pfsDesign'), wherever the anchors are in the path, and cuts the path at
\* the first occurrence of that anchor: the directory returned is the part
\* of the path before that occurrence (made absolute when the path is
\* relative), and for an absolute path its segments are a strict prefix of
\* the segments of the reference path without the chosen anchor among them.
C14_AnchorPriority ==
    DatadirInferred =>
        LET ref == call.ref
            anchor == ChosenAnchor(ref)
            first == FirstOccurrence(ref, anchor)
        IN  /\ ret.status = "ok"
            /\ ret.val = AbsPath(PathAbove(ref, first))
            /\ IsAbs(ref) =>
                    /\ StrictPrefix(RootSegments(ret.val), ref)
                    /\ Len(RootSegments(ret.val)) = first - 1
                    /\ ~Contains(RootSegments(ret.val), anchor)

====
